---- MODULE Spec2Model ----
(***************************************************************************)
(* DataNexus (src/app.py): a Streamlit script that keeps one DataFrame and *)
(* its file name in st.session_state and re-runs top to bottom on every    *)
(* user interaction.  One action below is one interaction: the widget      *)
(* event, the handler it triggers and the render that follows it.          *)
(***************************************************************************)
EXTENDS Integers, Sequences, FiniteSets, TLC

\* ------------------------------------------------------------- bounds
MaxRows == 3        \* data rows of an uploaded file: 0..MaxRows

\* ---------------------------------------------------------------- cells
\* One record shape for every cell value, so that any two cells compare.
\* k = "nan": pandas' missing marker; "num": the rational n/d in lowest
\* terms, d > 0 (float64/int64 values); "str": text; "bool": True/False,
\* which pandas orders and averages as 1/0.
NaN == [k |-> "nan", n |-> 0, d |-> 1, s |-> ""]
Int2Cell(i) == [k |-> "num", n |-> i, d |-> 1, s |-> ""]
Str(t) == [k |-> "str", n |-> 0, d |-> 1, s |-> t]
Bool(b) == [k |-> "bool", n |-> IF b THEN 1 ELSE 0, d |-> 1, s |-> ""]

RECURSIVE Gcd(_, _)
Gcd(a, b) == IF b = 0 THEN a ELSE Gcd(b, a % b)

\* n/d as a cell, in lowest terms (n >= 0, d > 0)
Rat(n, d) == LET g == Gcd(n, d) IN [k |-> "num", n |-> n \div g, d |-> d \div g, s |-> ""]

isnull(c) == c.k = "nan"
\* x <= y for two cells that carry a number ("num" or "bool")
Leq(x, y) == x.n * y.d <= y.n * x.d

Range(s) == {s[i] : i \in 1..Len(s)}

RECURSIVE SelectIdx(_, _, _)
\* the subsequence of s at the positions i (in order) for which keep[i]
SelectIdx(s, keep, i) ==
    IF i > Len(s) THEN <<>>
    ELSE (IF keep[i] THEN <<s[i]>> ELSE <<>>) \o SelectIdx(s, keep, i + 1)

\* ------------------------------------------------------------ DataFrame
\* A DataFrame: the columns in order, each [name, dtype, vals], and the
\* length of the index (a frame keeps its index when it has no column).
\* st.session_state['df'] = None is NoDF.
NoDF == [present |-> FALSE, cols |-> <<>>, nrows |-> 0]
NoName == "None"

columns(df) == {df.cols[i].name : i \in 1..Len(df.cols)}
Col(df, name) == df.cols[CHOOSE i \in 1..Len(df.cols) : df.cols[i].name = name]

\* pandas' dtype inference in read_csv / read_excel for one column
InferDtype(vals) ==
    IF Len(vals) = 0 THEN "object"
    ELSE IF \A i \in 1..Len(vals) : vals[i].k = "nan" THEN "float64"
    ELSE IF \A i \in 1..Len(vals) : vals[i].k = "num" /\ vals[i].d = 1 THEN "int64"
    ELSE IF \A i \in 1..Len(vals) : vals[i].k \in {"num", "nan"} THEN "float64"
    ELSE IF \A i \in 1..Len(vals) : vals[i].k = "bool" THEN "bool"
    ELSE "object"

\* pd.api.types.is_numeric_dtype: every np.number dtype and np.bool_
is_numeric_dtype(c) == c.dtype \in {"int64", "float64", "bool"}

\* df.select_dtypes(include=['float64', 'int64'])
select_dtypes(df) ==
    [df EXCEPT !.cols = SelectIdx(df.cols,
        [i \in 1..Len(df.cols) |-> df.cols[i].dtype \in {"float64", "int64"}], 1)]

\* DataFrame.empty: some axis has length 0
empty(df) == Len(df.cols) = 0 \/ df.nrows = 0

\* -------------------------------------------------- pandas operations
\* The result of a call that may raise: ok = FALSE is the exception, and
\* df is then the frame the call was made on.
Ok(df) == [ok |-> TRUE, df |-> df]
Raised(df) == [ok |-> FALSE, df |-> df]

\* the rows i of df with keep[i], in order, every column cut alike
TakeRows(df, keep) ==
    [df EXCEPT
        !.cols = [j \in 1..Len(df.cols) |->
                    [df.cols[j] EXCEPT !.vals = SelectIdx(df.cols[j].vals, keep, 1)]],
        !.nrows = Cardinality({i \in 1..df.nrows : keep[i]})]

\* drop with errors='ignore': labels not found are skipped
drop_ignore(df, names) ==
    Ok([df EXCEPT !.cols = SelectIdx(df.cols,
            [i \in 1..Len(df.cols) |-> df.cols[i].name \notin names], 1)])

\* df.drop(columns=names), errors='raise': KeyError on a label not found
drop(df, names) ==
    IF names \subseteq columns(df)
    THEN Ok([df EXCEPT !.cols = SelectIdx(df.cols,
                [i \in 1..Len(df.cols) |-> df.cols[i].name \notin names], 1)])
    ELSE Raised(df)

\* df.dropna(subset=[name]): KeyError when name is no column
dropna(df, name) ==
    IF name \in columns(df)
    THEN Ok(TakeRows(df, [i \in 1..df.nrows |-> ~isnull(Col(df, name).vals[i])]))
    ELSE Raised(df)

RECURSIVE SumFrom(_, _)
\* [n, d]: the sum of the non-missing cells of vals from position i on
SumFrom(vals, i) ==
    IF i > Len(vals) THEN [n |-> 0, d |-> 1]
    ELSE LET r == SumFrom(vals, i + 1) IN
         IF isnull(vals[i]) THEN r
         ELSE [n |-> vals[i].n * r.d + r.n * vals[i].d, d |-> vals[i].d * r.d]

count(vals) == Cardinality({i \in 1..Len(vals) : ~isnull(vals[i])})

\* the sum over the length of the column, missing cells counted
mean_over_len(vals) ==
    IF count(vals) = 0 THEN NaN
    ELSE LET t == SumFrom(vals, 1) IN Rat(t.n, t.d * Len(vals))

\* Series.mean(), skipna: NaN when no value is left
mean(vals) ==
    IF count(vals) = 0 THEN NaN
    ELSE LET t == SumFrom(vals, 1) IN Rat(t.n, t.d * count(vals))

\* Series.fillna(v): filling with NaN changes nothing
fillna(vals, v) ==
    [i \in 1..Len(vals) |-> IF isnull(vals[i]) THEN v ELSE vals[i]]

\* Series.min() / Series.max() of a numeric column, skipna, as float()
min(vals) ==
    IF count(vals) = 0 THEN NaN
    ELSE LET i == CHOOSE i \in 1..Len(vals) : ~isnull(vals[i]) /\
                    \A j \in 1..Len(vals) : ~isnull(vals[j]) => Leq(vals[i], vals[j])
         IN Rat(vals[i].n, vals[i].d)
max(vals) ==
    IF count(vals) = 0 THEN NaN
    ELSE LET i == CHOOSE i \in 1..Len(vals) : ~isnull(vals[i]) /\
                    \A j \in 1..Len(vals) : ~isnull(vals[j]) => Leq(vals[j], vals[i])
         IN Rat(vals[i].n, vals[i].d)

\* df[name] = vals on the session's frame (same index, so cells align)
SetColumn(df, name, vals) ==
    [df EXCEPT !.cols = [j \in 1..Len(df.cols) |->
        IF df.cols[j].name = name THEN [df.cols[j] EXCEPT !.vals = vals] ELSE df.cols[j]]]

\* the upper bound taken exclusive: df[name] < hi
FilterRange_exclusive(df, name, lo, hi) ==
    TakeRows(df, [i \in 1..df.nrows |->
        LET v == Col(df, name).vals[i] IN
            ~isnull(v) /\ Leq(lo, v) /\ Leq(v, hi) /\ ~Leq(hi, v)])

\* the mask applied one row late: row i is kept when row i - 1 is in range
FilterRange_shifted(df, name, lo, hi) ==
    TakeRows(df, [i \in 1..df.nrows |->
        /\ i > 1
        /\ LET v == Col(df, name).vals[i - 1] IN ~isnull(v) /\ Leq(lo, v) /\ Leq(v, hi)])

\* df[(df[name] >= lo) & (df[name] <= hi)]: a comparison with NaN is False
FilterRange(df, name, lo, hi) ==
    TakeRows(df, [i \in 1..df.nrows |->
        LET v == Col(df, name).vals[i] IN ~isnull(v) /\ Leq(lo, v) /\ Leq(v, hi)])

\* ---------------------------------------------------------------- state
VARIABLES
    df,         \* st.session_state['df']
    file_name,  \* st.session_state['file_name']
    menu,       \* the sidebar radio's selection
    view,       \* what the last run of the script showed
    req,        \* the interaction the last run served
    upName,     \* file name of the most recent successful upload
    upCols,     \* its column names
    upRows      \* its row count

vars == <<df, file_name, menu, view, req, upName, upCols, upRows>>

Menu == {"Ingestion", "Profiling", "Transformation", "Visualization"}
Methods == {"Drop Rows", "Fill with 0", "Fill with Mean"}
ChartTypes == {"Bar", "Line", "Scatter", "Histogram", "Box"}
NoCol == "None"     \* st.selectbox over no options returns None

\* messages the script emits
NoMsg == ""
MsgNoData == "No data loaded. Please go to the Ingestion module."
MsgLoaded == "File successfully loaded!"
MsgLoadError == "Error loading file"
MsgDropped == "Columns removed successfully."
MsgApplied == "Transformation applied."
MsgNoMean == "Operation failed: Cannot calculate mean for non-numeric column."
MsgFiltered == "Filter applied!"
MsgChartError == "Error creating chart"

\* One run's outcome.  status: "uploader" (the ingestion page, nothing
\* loaded by this run), "telemetry" (the loaded file's metrics and preview),
\* "nodata" (the warning of a consuming module), "rendered" (the module ran
\* to its end), "stopped" (st.stop()), "exception" (an uncaught exception
\* ended the run).  corr: the correlation tab.  download: the file name of
\* the download button, "" when the run showed none.  msg: the message the
\* run emitted; after a handler's st.rerun() it is the handler's message,
\* and the rest is the page as the rerun draws it.
View(status, msg, corr, download) ==
    [status |-> status, msg |-> msg, corr |-> corr, download |-> download]

Request(op, col, method, lo, hi) ==
    [op |-> op, col |-> col, method |-> method, lo |-> lo, hi |-> hi]

\* ----------------------------------------------------------- uploads
AllNames == {"a", "b", "c"}     \* "c": a name no uploaded file has

\* The columns a parser can return for one header name and n data rows.
\* Column "a" holds the row numbers with any of its cells left blank;
\* column "b" is one of three columns without a choice: the row numbers
\* counted down, text with a blank in every second row, and booleans.
ParsedColumns(name, n) ==
    {[name |-> name, dtype |-> InferDtype(v), vals |-> v] :
        v \in IF name = "a"
              THEN {[i \in 1..n |-> IF i \in blank THEN NaN ELSE Int2Cell(i)] :
                        blank \in SUBSET (1..n)}
              ELSE {[i \in 1..n |-> Int2Cell(n + 1 - i)],
                    [i \in 1..n |-> IF i % 2 = 0 THEN NaN ELSE Str("x")],
                    [i \in 1..n |-> Bool(i % 2 = 1)]}}

\* what pd.read_csv / pd.read_excel can return: at least one column
ParsedTables ==
    UNION {
        {[present |-> TRUE, cols |-> <<ca, cb>>, nrows |-> n] :
            ca \in ParsedColumns("a", n), cb \in ParsedColumns("b", n)}
        \cup {[present |-> TRUE, cols |-> <<c>>, nrows |-> n] :
            c \in ParsedColumns("a", n) \cup ParsedColumns("b", n)}
        : n \in 0..MaxRows}

\* An uploaded file: its name (stem and suffix) and what the parser makes
\* of its bytes: a table, or an exception (parsed = NoDF).
Files ==
    {[stem |-> "data", ext |-> ".csv", parsed |-> t] : t \in ParsedTables \cup {NoDF}}
    \cup {[stem |-> "book", ext |-> ".xlsx", parsed |-> t] :
            t \in {u \in ParsedTables : u.nrows <= 1} \cup {NoDF}}
    \cup {[stem |-> "DATA", ext |-> ".CSV", parsed |-> t] :
            t \in {u \in ParsedTables : u.nrows = 0} \cup {NoDF}}

Name(file) == file.stem \o file.ext

\* load_data: [df, msg]; df = NoDF is the None it returns
load_data(file) ==
    IF file.ext = ".csv" \/ file.ext = ".xlsx"
    THEN IF file.parsed.present
         THEN [df |-> file.parsed, msg |-> NoMsg]
         ELSE [df |-> NoDF, msg |-> MsgLoadError]
    ELSE [df |-> NoDF, msg |-> NoMsg]

\* ------------------------------------------------------------- renders
\* the tabs without the guard on None: the first read of the frame raises
RenderProfiling_unguarded(d) ==
    IF Len(d.cols) = 0 THEN View("exception", NoMsg, "none", "")
    ELSE IF ~empty(select_dtypes(d)) THEN View("rendered", NoMsg, "matrix", "")
    ELSE View("rendered", NoMsg, "insufficient", "")

\* Profiling: the guard, then the three tabs in order.  df.describe()
\* raises ValueError on a frame without columns, which ends the run before
\* the correlation tab.
RenderProfiling(d) ==
    IF ~d.present THEN View("nodata", MsgNoData, "none", "")
    ELSE IF Len(d.cols) = 0 THEN View("exception", NoMsg, "none", "")
    ELSE IF ~empty(select_dtypes(d)) THEN View("rendered", NoMsg, "matrix", "")
    ELSE View("rendered", NoMsg, "insufficient", "")

\* the values st.selectbox(label, df.columns) can return
Options(d) == IF Len(d.cols) = 0 THEN {NoCol} ELSE columns(d)

\* the filter expander opens its slider: df[filter_col] is a numeric column
\* with a least and a greatest value
SliderShown(d, filter_col) ==
    /\ filter_col \in columns(d)
    /\ is_numeric_dtype(Col(d, filter_col))
    /\ ~isnull(min(Col(d, filter_col).vals))

\* Transformation, no button pressed: the guard, the two forms, the filter
\* expander for the selected filter_col, the snapshot and the download
\* button.  df[None] raises KeyError; st.slider raises on NaN bounds.
RenderTransformation(d, fname, msg, filter_col) ==
    IF ~d.present THEN View("nodata", MsgNoData, "none", "")
    ELSE IF filter_col \notin columns(d) THEN View("exception", msg, "none", "")
    ELSE IF is_numeric_dtype(Col(d, filter_col)) /\ ~SliderShown(d, filter_col)
         THEN View("exception", msg, "none", "")
    ELSE View("rendered", msg, "none", "processed_" \o fname)

\* Visualization: the guard, then the chart inside try/except; raised says
\* whether plotly raised for the selection
RenderVisualization(d, raised) ==
    IF ~d.present THEN View("nodata", MsgNoData, "none", "")
    ELSE IF raised THEN View("rendered", MsgChartError, "none", "")
    ELSE View("rendered", NoMsg, "none", "")

NoRequest == Request("none", NoCol, "", NaN, NaN)

\* ----------------------------------------------------------------- Init
Init ==
    /\ df = NoDF
    /\ file_name = NoName
    /\ menu = "Ingestion"
    /\ view = View("uploader", NoMsg, "none", "")
    /\ req = NoRequest
    /\ upName = NoName
    /\ upCols = {}
    /\ upRows = 0

\* -------------------------------------------------------------- actions
\* The sidebar radio changes: the script runs the selected module.  The
\* file uploader of a page that was left comes back empty.
Navigate(m, filter_col, raised) ==
    /\ m # menu
    /\ filter_col \in Options(df)
    /\ menu' = m
    /\ view' = CASE m = "Ingestion" -> View("uploader", NoMsg, "none", "")
                 [] m = "Profiling" -> RenderProfiling(df)
                 [] m = "Transformation" ->
                        RenderTransformation(df, file_name, NoMsg, filter_col)
                 [] OTHER -> RenderVisualization(df, raised)
    /\ req' = Request("navigate", NoCol, "", NaN, NaN)
    /\ UNCHANGED <<df, file_name, upName, upCols, upRows>>

\* the file name stored before the load's result is looked at
Upload_name_first(file) ==
    /\ menu = "Ingestion"
    /\ file_name' = Name(file)
    /\ LET r == load_data(file) IN
        IF r.df.present
        THEN /\ df' = r.df
             /\ view' = View("telemetry", MsgLoaded, "none", "")
             /\ upName' = Name(file)
             /\ upCols' = columns(r.df)
             /\ upRows' = r.df.nrows
        ELSE /\ view' = View("uploader", r.msg, "none", "")
             /\ UNCHANGED <<df, upName, upCols, upRows>>
    /\ req' = Request("upload", NoCol, "", NaN, NaN)
    /\ UNCHANGED menu

\* Ingestion: a file arrives in the uploader
Upload(file) ==
    /\ menu = "Ingestion"
    /\ LET r == load_data(file) IN
        IF r.df.present
        THEN /\ df' = r.df
             /\ file_name' = Name(file)
             /\ view' = View("telemetry", MsgLoaded, "none", "")
             /\ upName' = Name(file)
             /\ upCols' = columns(r.df)
             /\ upRows' = r.df.nrows
        ELSE /\ view' = View("uploader", r.msg, "none", "")
             /\ UNCHANGED <<df, file_name, upName, upCols, upRows>>
    /\ req' = Request("upload", NoCol, "", NaN, NaN)
    /\ UNCHANGED menu

\* Transformation: "Execute Drop" with the multiselect's selection
ExecuteDrop(names, filter_col) ==
    /\ menu = "Transformation"
    /\ df.present
    /\ names \subseteq columns(df)
    /\ LET r == drop(df, names) IN
        IF r.ok
        THEN /\ filter_col \in Options(r.df)
             /\ df' = r.df
             /\ view' = RenderTransformation(r.df, file_name, MsgDropped, filter_col)
        ELSE /\ df' = df
             /\ view' = View("exception", NoMsg, "none", "")
    /\ req' = Request("drop", NoCol, "", NaN, NaN)
    /\ UNCHANGED <<file_name, menu, upName, upCols, upRows>>

\* "Drop Rows" written with inplace=True: dropna then returns None, and
\* None is what the session is given
Impute_inplace(d, col, method) ==
    IF method = "Drop Rows"
    THEN LET r == dropna(d, col) IN
         [status |-> IF r.ok THEN "applied" ELSE "raised",
          df |-> IF r.ok THEN NoDF ELSE d]
    ELSE IF col \notin columns(d) THEN [status |-> "raised", df |-> d]
    ELSE IF method = "Fill with 0"
    THEN [status |-> "applied",
          df |-> SetColumn(d, col, fillna(Col(d, col).vals, Int2Cell(0)))]
    ELSE IF is_numeric_dtype(Col(d, col))
    THEN [status |-> "applied",
          df |-> SetColumn(d, col, fillna(Col(d, col).vals, mean(Col(d, col).vals)))]
    ELSE [status |-> "rejected", df |-> d]

\* The body of "Apply Transformation" (lines 188-197) on frame d: status
\* "applied" (the run goes on to st.success and st.rerun), "rejected"
\* (st.error and st.stop) or "raised" (KeyError, for the None of an empty
\* selectbox); df is the session's frame after it.
Impute(d, col, method) ==
    IF method = "Drop Rows"
    THEN LET r == dropna(d, col) IN
         [status |-> IF r.ok THEN "applied" ELSE "raised", df |-> r.df]
    ELSE IF col \notin columns(d) THEN [status |-> "raised", df |-> d]
    ELSE IF method = "Fill with 0"
    THEN [status |-> "applied",
          df |-> SetColumn(d, col, fillna(Col(d, col).vals, Int2Cell(0)))]
    ELSE IF is_numeric_dtype(Col(d, col))
    THEN [status |-> "applied",
          df |-> SetColumn(d, col, fillna(Col(d, col).vals, mean(Col(d, col).vals)))]
    ELSE [status |-> "rejected", df |-> d]

\* Transformation: "Apply Transformation" for the selected column and method
ApplyTransformation(col, method, filter_col) ==
    /\ menu = "Transformation"
    /\ df.present
    /\ col \in Options(df)
    /\ LET r == Impute(df, col, method) IN
        /\ df' = r.df
        /\ CASE r.status = "applied" ->
                    /\ filter_col \in Options(r.df)
                    /\ view' = RenderTransformation(r.df, file_name, MsgApplied, filter_col)
             [] r.status = "rejected" -> view' = View("stopped", MsgNoMean, "none", "")
             [] OTHER -> view' = View("exception", NoMsg, "none", "")
    /\ req' = Request("impute", col, method, NaN, NaN)
    /\ UNCHANGED <<file_name, menu, upName, upCols, upRows>>

\* the bounds the range slider of column col can be set to
SliderValues(d, col) ==
    {Rat(c.n, c.d) : c \in {v \in Range(Col(d, col).vals) : ~isnull(v)}}

\* Transformation: "Apply Filter" with the slider at (lo, hi)
ApplyFilter(col, lo, hi, filter_col) ==
    /\ menu = "Transformation"
    /\ df.present
    /\ SliderShown(df, col)
    /\ lo \in SliderValues(df, col)
    /\ hi \in SliderValues(df, col)
    /\ Leq(lo, hi)
    /\ LET d == FilterRange(df, col, lo, hi) IN
        /\ filter_col \in Options(d)
        /\ df' = d
        /\ view' = RenderTransformation(d, file_name, MsgFiltered, filter_col)
    /\ req' = Request("filter", col, "", lo, hi)
    /\ UNCHANGED <<file_name, menu, upName, upCols, upRows>>

\* Transformation: another column is picked in the filter's selectbox
SelectFilterColumn(filter_col) ==
    /\ menu = "Transformation"
    /\ df.present
    /\ filter_col \in Options(df)
    /\ view' = RenderTransformation(df, file_name, NoMsg, filter_col)
    /\ req' = Request("select", NoCol, "", NaN, NaN)
    /\ UNCHANGED <<df, file_name, menu, upName, upCols, upRows>>

\* Visualization: a chart type or an axis is picked
ConfigureChart(chart_type, x_axis, y_axis, raised) ==
    /\ menu = "Visualization"
    /\ df.present
    /\ x_axis \in Options(df)
    /\ y_axis \in Options(df)
    /\ view' = RenderVisualization(df, raised)
    /\ req' = Request("chart", NoCol, "", NaN, NaN)
    /\ UNCHANGED <<df, file_name, menu, upName, upCols, upRows>>

\* the values a column selectbox can hold
Selections == AllNames \cup {NoCol}

Next ==
    \/ \E m \in Menu, fc \in Options(df), raised \in BOOLEAN : Navigate(m, fc, raised)
    \/ \E file \in Files : Upload(file)
    \/ \E names \in SUBSET AllNames, fc \in Selections : ExecuteDrop(names, fc)
    \/ \E col \in Options(df), method \in Methods, fc \in Selections :
            ApplyTransformation(col, method, fc)
    \/ \E col \in columns(df) : \E lo \in SliderValues(df, col), hi \in SliderValues(df, col) :
            \E fc \in Selections : ApplyFilter(col, lo, hi, fc)
    \/ \E fc \in Options(df) : SelectFilterColumn(fc)
    \/ \E t \in ChartTypes, x \in Options(df), y \in Options(df), raised \in BOOLEAN :
            ConfigureChart(t, x, y, raised)

Spec == Init /\ [][Next]_vars

\* ------------------------------------------------------------ properties
\* The Table's type tags are numeric, text and boolean: a numeric column is
\* one of numbers, int64 or float64.
Numeric(c) == c.dtype \in {"int64", "float64"}
NumericColumns(d) == {n \in columns(d) : Numeric(Col(d, n))}

Pos(d, name) == CHOOSE i \in 1..Len(d.cols) : d.cols[i].name = name
Header(d) == [i \in 1..Len(d.cols) |-> [name |-> d.cols[i].name, dtype |-> d.cols[i].dtype]]

\* every column holds one cell per row
WellFormed(d) == \A i \in 1..Len(d.cols) : Len(d.cols[i].vals) = d.nrows

\* C1: "Fill with Mean" on a column that is not numeric ends in the explicit
\* failure, not in "Transformation applied", and leaves the Table as it was.
C1_FillMeanRejectsNonNumeric ==
    [][(/\ req'.op = "impute"
        /\ req'.method = "Fill with Mean"
        /\ req'.col \in columns(df)
        /\ ~Numeric(Col(df, req'.col)))
       => (/\ view'.status = "stopped"
           /\ view'.msg = MsgNoMean
           /\ df' = df)]_vars

\* C2: an upload that does not load leaves the Table and the file name as
\* they were and reports a message.
C2_FailedUploadReported ==
    [][(req'.op = "upload" /\ view'.status # "telemetry")
       => (/\ df' = df
           /\ file_name' = file_name
           /\ view'.msg # NoMsg)]_vars

\* C3: with fewer than 2 numeric columns the correlation tab shows the
\* "insufficient numeric columns" result; a matrix needs at least 2.
C3_CorrelationNeedsTwoColumns ==
    (menu = "Profiling" /\ df.present) =>
        /\ Cardinality(NumericColumns(df)) < 2 => view.corr = "insufficient"
        /\ view.corr = "matrix" => Cardinality(NumericColumns(df)) >= 2

\* what DropColumns(names) is to leave of frame d in frame e: the columns
\* not named, as they were and in their order, and every row
Dropped(d, names, e) ==
    /\ e.present
    /\ columns(e) = columns(d) \ names
    /\ e.nrows = d.nrows
    /\ \A n \in columns(e) : Col(e, n) = Col(d, n)
    /\ \A x, y \in columns(e) : Pos(e, x) < Pos(e, y) <=> Pos(d, x) < Pos(d, y)

InRange(d, col, lo, hi) ==
    {i \in 1..d.nrows :
        LET v == Col(d, col).vals[i] IN ~isnull(v) /\ Leq(lo, v) /\ Leq(v, hi)}

\* the k-th least member of a set of row numbers
Kth(S, k) == CHOOSE i \in S : Cardinality({j \in S : j < i}) = k - 1

\* frame e is the rows S of frame d, in their order, cell for cell
IsRowsOf(e, d, S) ==
    /\ e.present
    /\ e.nrows = Cardinality(S)
    /\ Header(e) = Header(d)
    /\ \A j \in 1..Len(d.cols) :
        /\ Len(e.cols[j].vals) = e.nrows
        /\ \A k \in 1..e.nrows : e.cols[j].vals[k] = d.cols[j].vals[Kth(S, k)]

\* C5: FilterRange(col, low, high) on a numeric column, low <= high, leaves
\* exactly the rows with low <= value <= high, both bounds included and rows
\* with a missing value left out, in their order and cell for cell.
C5_FilterRetainsRange ==
    [][(/\ req'.op = "filter"
        /\ req'.col \in NumericColumns(df)
        /\ Leq(req'.lo, req'.hi))
       => (/\ view'.msg = MsgFiltered
           /\ IsRowsOf(df', df, InRange(df, req'.col, req'.lo, req'.hi)))]_vars

\* rows 2 and 3 of a three-row upload are left by FilterRange(a, 2, 3)
C5_Witness ==
    /\ req.op = "filter"
    /\ req.col = "a"
    /\ req.lo = Int2Cell(2)
    /\ req.hi = Int2Cell(MaxRows)
    /\ upRows = MaxRows
    /\ df.nrows = MaxRows - 1
    /\ columns(df) = {"a", "b"}
    /\ Col(df, "b").vals = [i \in 1..(MaxRows - 1) |-> Int2Cell(MaxRows - i)]

\* C6: the same FilterRange applied again to its own result changes nothing.
C6_FilterTwiceIsNoOp ==
    [][(/\ req.op = "filter"
        /\ req'.op = "filter"
        /\ req'.col = req.col
        /\ req'.lo = req.lo
        /\ req'.hi = req.hi)
       => df' = df]_vars

\* a filter has cut rows and its slider can be set to the same range again
C6_Witness ==
    /\ req.op = "filter"
    /\ view.msg = MsgFiltered
    /\ df.nrows < upRows
    /\ df.nrows >= 2
    /\ SliderShown(df, req.col)
    /\ req.lo \in SliderValues(df, req.col)
    /\ req.hi \in SliderValues(df, req.col)
    /\ req.lo # req.hi

\* the least common denominator-free total: with D the product of the
\* denominators of the values of vals, the sum of the values times D
RECURSIVE Denominator(_, _)
Denominator(vals, i) ==
    IF i > Len(vals) THEN 1
    ELSE (IF isnull(vals[i]) THEN 1 ELSE vals[i].d) * Denominator(vals, i + 1)
RECURSIVE Total(_, _, _)
Total(vals, i, D) ==
    IF i > Len(vals) THEN 0
    ELSE (IF isnull(vals[i]) THEN 0 ELSE vals[i].n * (D \div vals[i].d))
         + Total(vals, i + 1, D)

\* cell m is the mean of the values of vals that are not missing; of no
\* value, the mean is the missing marker
IsMeanOf(m, vals) ==
    LET present == {i \in 1..Len(vals) : ~isnull(vals[i])}
        D == Denominator(vals, 1)
    IN IF present = {} THEN isnull(m)
       ELSE m.k = "num" /\ m.n * Cardinality(present) * D = m.d * Total(vals, 1, D)

\* C7: "Fill with Mean" on a numeric column puts the mean of the column's
\* values, as they were, in every missing cell of it and changes nothing else.
C7_FillMeanFillsWithMean ==
    [][(/\ req'.op = "impute"
        /\ req'.method = "Fill with Mean"
        /\ req'.col \in NumericColumns(df))
       => (/\ view'.msg = MsgApplied
           /\ df'.present
           /\ df'.nrows = df.nrows
           /\ Header(df') = Header(df)
           /\ \A n \in columns(df) \ {req'.col} : Col(df', n) = Col(df, n)
           /\ LET old == Col(df, req'.col).vals
                  new == Col(df', req'.col).vals
              IN /\ Len(new) = Len(old)
                 /\ \A i \in 1..Len(old) :
                        IF isnull(old[i]) THEN IsMeanOf(new[i], old)
                        ELSE new[i] = old[i])]_vars

\* the column 1, 2, missing was filled with 3/2, the other column kept
C7_Witness ==
    /\ req.op = "impute"
    /\ req.method = "Fill with Mean"
    /\ req.col = "a"
    /\ view.msg = MsgApplied
    /\ columns(df) = {"a", "b"}
    /\ Col(df, "a").vals = <<Int2Cell(1), Int2Cell(2), Rat(3, 2)>>
    /\ Col(df, "b").vals = <<Int2Cell(3), Int2Cell(2), Int2Cell(1)>>

\* C8: while the Table is absent, each of Profiling, Transformation and
\* Visualization ends in the "no data" state, no transformation, filter or
\* chart request is served, and only a successful upload makes it present.
C8_NoDataWhileAbsent ==
    [][/\ (~df'.present /\ menu' # "Ingestion")
            => view' = View("nodata", MsgNoData, "none", "")
       /\ ~df.present => req'.op \in {"navigate", "upload"}
       /\ (~df.present /\ df'.present)
            => (req'.op = "upload" /\ view'.status = "telemetry")]_vars

C8_Witness ==
    /\ ~df.present
    /\ menu = "Transformation"
    /\ view.status = "nodata"
    /\ view.download = ""

\* C9: only a successful upload writes the file name, and the download is
\* named "processed_" and the file name of the most recent successful upload.
C9_FileNameFromLastUpload ==
    [][/\ file_name' # file_name
            => (req'.op = "upload" /\ view'.status = "telemetry")
       /\ file_name' = upName'
       /\ view'.download # "" => view'.download = "processed_" \o upName']_vars

\* after a second upload and a transformation of it
C9_Witness ==
    /\ upName = "book.xlsx"
    /\ req.op = "impute"
    /\ view.msg = MsgApplied
    /\ view.download = "processed_book.xlsx"

\* C10: once a file is loaded the Table stays present, with no column the
\* upload did not have and no more rows than the upload had.
C10_TableOnlyShrinks ==
    upName # NoName =>
        /\ df.present
        /\ WellFormed(df)
        /\ columns(df) \subseteq upCols
        /\ df.nrows <= upRows

\* columns and rows were both removed since the upload
C10_Witness ==
    /\ upName # NoName
    /\ df.present
    /\ columns(df) # upCols
    /\ columns(df) # {}
    /\ df.nrows < upRows
    /\ df.nrows > 0

====
